---- MODULE Spec2Model ----
(***************************************************************************)
(* Model of app.py, the whisper board: two JSON files rewritten wholesale, *)
(* one process-wide LAST_UPDATE_TIME, a background cleanup thread and the  *)
(* Flask request handlers run by concurrent worker threads (threaded=True).*)
(* Every handler is split at the points where it touches shared state: a   *)
(* load of a file, the truncating open of a file, the write of its new     *)
(* content together with the clock read that follows it, and the           *)
(* assignment of LAST_UPDATE_TIME.                                         *)
(*                                                                         *)
(* Time is counted in whole days; the clock is an environment variable     *)
(* that never goes back (Tick).  A timestamp is written in the files and   *)
(* in responses through isoformat and read back through fromisoformat.     *)
(* A text is a sequence of one-character strings.                          *)
(***************************************************************************)
EXTENDS Integers, Sequences, FiniteSets, TLC

\* ------------------------------------------------------------------------
\* Bounds of the model
\* ------------------------------------------------------------------------
MaxTime == 2          \* the clock runs over 0..MaxTime days
MaxOps == 2           \* requests served in one run

\* ------------------------------------------------------------------------
\* Program constants
\* ------------------------------------------------------------------------
Retention == 2        \* timedelta(hours=48), in days

ALL_TOPICS ==
    {"confession", "life", "secrets", "advice", "love",
     "series-movies", "politically-incorrect", "paranormal",
     "health-fitness", "vent", "music", "fashion",
     "gaming", "otaku-stuff", "random"}

WorkerOrder == <<"w1", "w2">>    \* request threads of the threaded server
Workers == {WorkerOrder[i] : i \in 1..Len(WorkerOrder)}
Sweeper == "cleanup_thread"
Procs == Workers \cup {Sweeper}

\* A query parameter or JSON key that the request does not carry.
NoParam == "<absent>"
Absent == [has |-> FALSE, val |-> <<>>]
Given(s) == [has |-> TRUE, val |-> s]
Get(param, default) == IF param = NoParam THEN default ELSE param

\* ------------------------------------------------------------------------
\* Texts: str.strip, str comparison, isoformat / fromisoformat
\* ------------------------------------------------------------------------
Digits == <<"0", "1", "2", "3", "4", "5", "6", "7", "8", "9">>
IsDigit(c) == \E i \in 1..Len(Digits) : Digits[i] = c
DigitVal(c) == (CHOOSE i \in 1..Len(Digits) : Digits[i] = c) - 1

\* Code point of a character, as far as the order of str values needs it.
Ord(c) ==
    IF IsDigit(c) THEN 48 + DigitVal(c)
    ELSE IF c = " " THEN 32
    ELSE IF c = "+" THEN 43
    ELSE IF c = "Z" THEN 90
    ELSE 97

RECURSIVE StrLess(_, _)
StrLess(a, b) ==
    IF b = <<>> THEN FALSE
    ELSE IF a = <<>> THEN TRUE
    ELSE IF Ord(Head(a)) # Ord(Head(b)) THEN Ord(Head(a)) < Ord(Head(b))
    ELSE StrLess(Tail(a), Tail(b))

RECURSIVE lstrip(_)
lstrip(s) == IF s # <<>> /\ Head(s) = " " THEN lstrip(Tail(s)) ELSE s

RECURSIVE rstrip(_)
rstrip(s) ==
    IF s # <<>> /\ s[Len(s)] = " " THEN rstrip(SubSeq(s, 1, Len(s) - 1)) ELSE s

strip(s) == rstrip(lstrip(s))

\* datetime.isoformat() of a UTC time: zero-padded day count, then the
\* offset "+00:00", written here as the one character "+".
isoformat(t) == <<Digits[(t \div 10) + 1], Digits[(t % 10) + 1], "+">>

\* s.replace('Z', '+00:00')
replaceZ(s) == [i \in 1..Len(s) |-> IF s[i] = "Z" THEN "+" ELSE s[i]]

\* datetime.fromisoformat: the time, or a ValueError.
fromisoformat(s) ==
    IF Len(s) = 3 /\ IsDigit(s[1]) /\ IsDigit(s[2]) /\ s[3] = "+"
    THEN [ok |-> TRUE, val |-> 10 * DigitVal(s[1]) + DigitVal(s[2])]
    ELSE [ok |-> FALSE, val |-> 0]

ParseTime(s) == fromisoformat(replaceZ(s)).val

\* ------------------------------------------------------------------------
\* State
\* ------------------------------------------------------------------------
VARIABLES
    now,                \* the UTC clock, in days
    WHISPERS_FILE,      \* frontend/whispers.json: [ok, data]
    REPLIES_FILE,       \* frontend/replies.json:  [ok, data]
    LAST_UPDATE_TIME,   \* the global of line 24
    pc,                 \* where each thread is
    loc,                \* the local variables of each thread
    ops,                \* number of requests taken up
    sweptAt,            \* history: post id -> time of the last completed
                        \*   cleanup cycle that expired a post of that id
    ackW,               \* history: posts whose create request returned success
    ackR,               \* history: post id -> create-reply successes
    staleMax            \* history: the latest value LAST_UPDATE_TIME had
                        \*   when a save that has since returned True wrote
                        \*   its file at a later reading of the clock

vars == <<now, WHISPERS_FILE, REPLIES_FILE, LAST_UPDATE_TIME, pc, loc, ops,
          sweptAt, ackW, ackR, staleMax>>

files == <<WHISPERS_FILE, REPLIES_FILE>>
history == <<sweptAt, ackW, ackR, staleMax>>

\* Ids that max + 1 can give: one more per request, after the first.
Ids == 1..(MaxOps + 1)

\* A file holds a JSON list, or (between open(.., 'w') and the close of a
\* writer) nothing that json.load accepts.
Stored(data) == [ok |-> TRUE, data |-> data]
Truncated == [ok |-> FALSE, data |-> <<>>]

NoLoc ==
    [whispers |-> <<>>, replies |-> <<>>, filtered_whispers |-> <<>>,
     deleted_ids |-> <<>>, cutoff_time |-> 0, id |-> 0, topic |-> "",
     last_client_update |-> Absent, data_changed |-> FALSE,
     current_count |-> -1, content |-> Absent, after |-> "idle", sv |-> "", t |-> 0, pre |-> 0,
     seen |-> <<>>]

\* ------------------------------------------------------------------------
\* Pure parts of the handlers
\* ------------------------------------------------------------------------
load_data(file) == IF file.ok THEN file.data ELSE <<>>

RECURSIVE MaxOf(_)
MaxOf(S) ==
    IF S = {} THEN 0
    ELSE LET x == CHOOSE y \in S : TRUE
             m == MaxOf(S \ {x})
         IN IF x > m THEN x ELSE m

\* The next id taken from the number of records.
MutNewId(records) == Len(records) + 1

\* max(ids, default=0) + 1, lines 214 and 254.
NewId(records) == MaxOf({records[i].id : i \in 1..Len(records)}) + 1

InList(x, list) == \E i \in 1..Len(list) : list[i] = x

\* Lines 72-76: the posts kept and the ids of the posts expired.
Kept(w, cutoff_time) == ParseTime(w.created_at) > cutoff_time
FilteredWhispers(whispers, cutoff_time) ==
    SelectSeq(whispers, LAMBDA w : Kept(w, cutoff_time))
DeletedIds(whispers, cutoff_time) ==
    LET gone == SelectSeq(whispers, LAMBDA w : ~Kept(w, cutoff_time))
    IN [i \in 1..Len(gone) |-> gone[i].id]

\* Line 80.
FilteredReplies(replies, deleted_ids) ==
    SelectSeq(replies, LAMBDA r : ~InList(r.whisper_id, deleted_ids))

\* Lines 203 and 265.
RepliesCount(replies, id) ==
    Len(SelectSeq(replies, LAMBDA r : r.whisper_id = id))

\* next((w for w in whispers if w['id'] == id), None)
HasWhisper(whispers, id) == \E i \in 1..Len(whispers) : whispers[i].id = id
FirstIndex(whispers, id) ==
    CHOOSE i \in 1..Len(whispers) :
        /\ whispers[i].id = id
        /\ \A j \in 1..(i - 1) : whispers[j].id # id

\* list.sort(key=created_at): stable insertion by the str order.
RECURSIVE InsertAsc(_, _)
InsertAsc(sorted, x) ==
    IF sorted = <<>> THEN <<x>>
    ELSE IF StrLess(x.created_at, Head(sorted).created_at)
         THEN <<x>> \o sorted
         ELSE <<Head(sorted)>> \o InsertAsc(Tail(sorted), x)

RECURSIVE SortAsc(_)
SortAsc(list) ==
    IF list = <<>> THEN <<>>
    ELSE InsertAsc(SortAsc(SubSeq(list, 1, Len(list) - 1)), list[Len(list)])

\* list.sort(key=created_at, reverse=True): equal keys keep their order.
RECURSIVE InsertDesc(_, _)
InsertDesc(sorted, x) ==
    IF sorted = <<>> THEN <<x>>
    ELSE IF StrLess(Head(sorted).created_at, x.created_at)
         THEN <<x>> \o sorted
         ELSE <<Head(sorted)>> \o InsertDesc(Tail(sorted), x)

RECURSIVE SortDesc(_)
SortDesc(list) ==
    IF list = <<>> THEN <<>>
    ELSE InsertDesc(SortDesc(SubSeq(list, 1, Len(list) - 1)), list[Len(list)])

\* Lines 122-125 of get_whispers: the topic after validation.
ListTopic(topic) ==
    IF topic # "" /\ topic # "all" /\ topic \notin ALL_TOPICS
    THEN "all" ELSE topic

\* The sort of line 137 without reverse=True.
MutListData(whispers, topic) ==
    SortAsc(IF topic # "" /\ topic # "all"
            THEN SelectSeq(whispers, LAMBDA w : w.topic = topic)
            ELSE whispers)

\* Lines 122-137 of get_whispers: the data of the response.
ListData(whispers, topic) ==
    SortDesc(IF topic # "" /\ topic # "all"
             THEN SelectSeq(whispers, LAMBDA w : w.topic = ListTopic(topic))
             ELSE whispers)

\* Lines 160-172 of check_updates: current_count is assigned on two of the
\* three paths; -1 stands for the unbound local.
CheckTopic(client_topic) ==
    IF client_topic # "" /\ client_topic # "all" /\ client_topic \notin ALL_TOPICS
    THEN "all" ELSE client_topic

CheckCount(whispers, client_topic) ==
    IF client_topic # "" /\ client_topic # "all"
    THEN IF client_topic \notin ALL_TOPICS
         THEN -1
         ELSE Len(SelectSeq(whispers, LAMBDA w : w.topic = client_topic))
    ELSE Len(whispers)

\* Lines 175-182 of check_updates.
DataChanged(last_client_update, last) ==
    IF last_client_update.has /\ last_client_update.val # <<>>
    THEN LET client_time == fromisoformat(replaceZ(last_client_update.val))
         IN IF client_time.ok THEN last > client_time.val ELSE TRUE
    ELSE TRUE

\* Lines 210 and 245: not data or not data.get('content')
ContentMissing(content) == ~content.has \/ content.val = <<>>

\* Lines 217-219.
PostTopic(topic) ==
    IF Get(topic, "random") \in ALL_TOPICS THEN Get(topic, "random") ELSE "random"

\* Lines 221-228.
NewWhisper(whispers, content, topic, is_sensitive, t) ==
    [id |-> NewId(whispers), content |-> strip(content.val),
     topic |-> PostTopic(topic), is_sensitive |-> is_sensitive,
     replies_count |-> 0, created_at |-> isoformat(t)]

\* Lines 255-260.
NewReply(replies, id, content, t) ==
    [id |-> NewId(replies), whisper_id |-> id,
     content |-> strip(content.val), created_at |-> isoformat(t)]

\* What identifies a post in the history of acknowledged creations.
Key(w) == [id |-> w.id, content |-> w.content, topic |-> w.topic,
           created_at |-> w.created_at]
Keys(whispers) == {Key(whispers[i]) : i \in 1..Len(whispers)}

\* ------------------------------------------------------------------------
\* Init
\* ------------------------------------------------------------------------
\* The files outlive the process: init_data() writes '[]' only to a file
\* that does not exist, so a run starts from the empty store or from what
\* an earlier run left.  Line 24 has read the clock.
Whisper0 ==
    [id |-> 1, content |-> <<"a">>, topic |-> "music", is_sensitive |-> FALSE,
     replies_count |-> 1, created_at |-> isoformat(0)]
Reply0 ==
    [id |-> 1, whisper_id |-> 1, content |-> <<"a">>,
     created_at |-> isoformat(0)]

Whisper1 ==
    [id |-> 2, content |-> <<"a">>, topic |-> "random", is_sensitive |-> TRUE,
     replies_count |-> 0, created_at |-> isoformat(0)]

InitialStores ==
    { <<Stored(<<>>), Stored(<<>>)>>,
      <<Stored(<<Whisper0>>), Stored(<<Reply0>>)>> }

InitialStoresSeq ==
    InitialStores \cup {<<Stored(<<Whisper0, Whisper1>>), Stored(<<Reply0>>)>>}

InitFrom(stores) ==
    /\ now = 0
    /\ \E store \in stores :
            WHISPERS_FILE = store[1] /\ REPLIES_FILE = store[2]
    /\ LAST_UPDATE_TIME = 0
    /\ pc = [p \in Procs |-> "idle"]
    /\ loc = [p \in Procs |-> NoLoc]
    /\ ops = 0
    /\ sweptAt = [i \in Ids |-> -1]
    /\ ackW = Keys(WHISPERS_FILE.data)
    /\ ackR = [i \in Ids |-> RepliesCount(REPLIES_FILE.data, i)]
    /\ staleMax = -1

Init == InitFrom(InitialStores)
InitSeq == InitFrom(InitialStoresSeq)

\* ------------------------------------------------------------------------
\* Steps
\* ------------------------------------------------------------------------
Goto(p, label, l) ==
    /\ pc' = [pc EXCEPT ![p] = label]
    /\ loc' = [loc EXCEPT ![p] = l]

\* The response leaves and the thread is free again.
Respond(p) == Goto(p, "idle", NoLoc)

\* A request goes to the first free thread of the pool.
FirstFree(p) ==
    \A i, j \in 1..Len(WorkerOrder) :
        i < j /\ WorkerOrder[j] = p => pc[WorkerOrder[i]] # "idle"

Begin(p) ==
    /\ p \in Workers
    /\ pc[p] = "idle"
    /\ FirstFree(p)
    /\ ops < MaxOps
    /\ ops' = ops + 1

\* Time passes.
Tick ==
    /\ now < MaxTime
    /\ now' = now + 1
    /\ UNCHANGED <<files, LAST_UPDATE_TIME, pc, loc, ops, history>>

\* The ids a request path can name: those stored, and one that is not.
RequestIds == 1..NewId(load_data(WHISPERS_FILE))

\* ---- cleanup_old_whispers, lines 66-86 ---------------------------------
\* Line 73 raises on a record whose created_at does not parse.
Malformed(whispers) ==
    \E i \in 1..Len(whispers) :
        ~fromisoformat(replaceZ(whispers[i].created_at)).ok

\* The error leaves cleanup_old_whispers and ends the thread that runs it.
MutCleanupExcept(p, l, after) == Goto(p, "dead", NoLoc)

\* Lines 84-86: the error is caught and printed, the function returns False
\* and the caller, which ignores the result, goes on.
CleanupExcept(p, l, after) ==
    Goto(p, after, IF after = "idle" THEN NoLoc ELSE l)

\* The saves run whether or not a post expired.
MutCleanupWrites(deleted_ids) == TRUE

\* Line 78: `if deleted_ids`.
CleanupWrites(deleted_ids) == deleted_ids # <<>>

\* Lines 68-76 and the test of line 78.  With nothing expired the function
\* returns at once, to the caller's next statement.
CleanupLoad(p, l, after) ==
    LET whispers == load_data(WHISPERS_FILE)
        cutoff_time == now - Retention
        deleted_ids == DeletedIds(whispers, cutoff_time)
        l2 == [l EXCEPT !.cutoff_time = cutoff_time, !.after = after]
    IN IF Malformed(whispers)
       THEN CleanupExcept(p, l2, after)
       ELSE IF ~CleanupWrites(deleted_ids)
       THEN Goto(p, after, IF after = "idle" THEN NoLoc ELSE l2)
       ELSE Goto(p, "cl_replies",
                 [l2 EXCEPT !.whispers = whispers,
                            !.filtered_whispers =
                                FilteredWhispers(whispers, cutoff_time),
                            !.deleted_ids = deleted_ids])

\* Lines 89-92: the cleanup thread wakes up and starts a cycle.
auto_cleanup(p) ==
    /\ p = Sweeper
    /\ pc[p] = "idle"
    /\ CleanupLoad(p, NoLoc, "idle")
    /\ UNCHANGED <<now, files, LAST_UPDATE_TIME, ops, history>>

\* Lines 79-80.
cleanup_replies(p) ==
    /\ pc[p] = "cl_replies"
    /\ Goto(p, "cl_save_1",
            [loc[p] EXCEPT
                !.replies = FilteredReplies(load_data(REPLIES_FILE),
                                            loc[p].deleted_ids),
                !.sv = "open"])
    /\ UNCHANGED <<now, files, LAST_UPDATE_TIME, ops, history>>

\* ---- save_data, lines 55-64 --------------------------------------------
\* The calls of save_data: lines 81, 82, 231, 263 and 266.
SaveSites == {"cl_save_1", "cl_save_2", "cw_save", "cr_save_r", "cr_save_w"}

\* The posts saved before the replies.
MutCleanupSaves == <<"whispers", "replies">>

\* Lines 81-82: what cleanup_old_whispers saves first and second.
CleanupSaves == <<"replies", "whispers">>

SavesReplies(site) ==
    \/ site = "cr_save_r"
    \/ site = "cl_save_1" /\ CleanupSaves[1] = "replies"
    \/ site = "cl_save_2" /\ CleanupSaves[2] = "replies"

SaveArg(site, l) ==
    IF SavesReplies(site) THEN l.replies
    ELSE IF site \in {"cl_save_1", "cl_save_2"} THEN l.filtered_whispers
    ELSE l.whispers

WriteFile(site, content) ==
    IF SavesReplies(site)
    THEN REPLIES_FILE' = content /\ UNCHANGED WHISPERS_FILE
    ELSE WHISPERS_FILE' = content /\ UNCHANGED REPLIES_FILE

\* Line 57: open(file_path, 'w') empties the file.
save_open(p) ==
    /\ pc[p] \in SaveSites
    /\ loc[p].sv = "open"
    /\ WriteFile(pc[p], Truncated)
    /\ Goto(p, pc[p], [loc[p] EXCEPT !.sv = "write"])
    /\ UNCHANGED <<now, LAST_UPDATE_TIME, ops, history>>

\* Lines 58-60: the dump reaches the file at the close; datetime.now() is
\* evaluated.
save_write(p) ==
    /\ pc[p] \in SaveSites
    /\ loc[p].sv = "write"
    /\ WriteFile(pc[p], Stored(SaveArg(pc[p], loc[p])))
    /\ Goto(p, pc[p], [loc[p] EXCEPT !.sv = "stamp", !.t = now,
                                     !.pre = LAST_UPDATE_TIME])
    /\ UNCHANGED <<now, LAST_UPDATE_TIME, ops, history>>

\* Line 82 follows line 81.
CleanupSecondSave(p) ==
    /\ Goto(p, "cl_save_2", [loc[p] EXCEPT !.sv = "open", !.t = 0, !.pre = 0])
    /\ UNCHANGED <<sweptAt, ackW, ackR>>

\* Line 83: the cycle is over; the caller goes on.
CleanupReturn(p) ==
    LET l == loc[p]
        gone(i) == InList(i, l.deleted_ids)
    IN /\ Goto(p, l.after,
               IF l.after = "idle" THEN NoLoc
               ELSE [NoLoc EXCEPT !.topic = l.topic, !.seen = l.seen,
                                  !.cutoff_time = l.cutoff_time,
                                  !.after = l.after])
       /\ sweptAt' = [i \in Ids |->
                        IF gone(i) THEN l.cutoff_time + Retention
                        ELSE sweptAt[i]]
       /\ ackW' = {k \in ackW :
                     ~(gone(k.id) /\ ParseTime(k.created_at) <= l.cutoff_time)}
       /\ ackR' = [i \in Ids |-> IF gone(i) THEN 0 ELSE ackR[i]]

\* Lines 231-232: the post appended at line 230 is the data of the response.
CreateWhisperReturn(p) ==
    /\ Respond(p)
    /\ ackW' = ackW \cup {Key(loc[p].whispers[Len(loc[p].whispers)])}
    /\ UNCHANGED <<sweptAt, ackR>>

\* Lines 263-266: the count goes into the post of the list loaded at
\* line 248, and that list is saved.
CreateReplyCount(p) ==
    LET l == loc[p]
        i == FirstIndex(l.whispers, l.id)
    IN /\ Goto(p, "cr_save_w",
               [l EXCEPT !.whispers[i].replies_count =
                             RepliesCount(l.replies, l.id),
                         !.sv = "open", !.t = 0, !.pre = 0])
       /\ UNCHANGED <<sweptAt, ackW, ackR>>

\* Line 267: success, whatever the save of line 266 returned.
CreateReplyReturn(p) ==
    /\ Respond(p)
    /\ ackR' = [ackR EXCEPT ![loc[p].id] = @ + 1]
    /\ UNCHANGED <<sweptAt, ackW>>

\* Lines 59-61: LAST_UPDATE_TIME is assigned, save_data returns True and
\* the caller goes on.
save_stamp(p) ==
    /\ pc[p] \in SaveSites
    /\ loc[p].sv = "stamp"
    /\ LAST_UPDATE_TIME' = loc[p].t
    /\ staleMax' = IF loc[p].t > loc[p].pre /\ loc[p].pre > staleMax
                   THEN loc[p].pre ELSE staleMax
    /\ CASE pc[p] = "cl_save_1" -> CleanupSecondSave(p)
         [] pc[p] = "cl_save_2" -> CleanupReturn(p)
         [] pc[p] = "cw_save" -> CreateWhisperReturn(p)
         [] pc[p] = "cr_save_r" -> CreateReplyCount(p)
         [] pc[p] = "cr_save_w" -> CreateReplyReturn(p)
    /\ UNCHANGED <<now, files, ops>>

\* ---- save_data and load_data failing ----------------------------------
\* Line 83 after a save of the posts that failed: nothing was removed.
CleanupReturnFailed(p) ==
    LET l == loc[p]
    IN /\ Goto(p, l.after,
               IF l.after = "idle" THEN NoLoc
               ELSE [NoLoc EXCEPT !.topic = l.topic, !.seen = l.seen,
                                  !.cutoff_time = l.cutoff_time,
                                  !.after = l.after])
       /\ UNCHANGED <<sweptAt, ackW, ackR>>

\* Lines 62-64: save_data returns False.  cleanup_old_whispers ignores the
\* result; create_whisper and create_reply go to their last line after a
\* failed first save; line 266 ignores the result.
SaveFailed(p) ==
    CASE pc[p] = "cl_save_1" -> CleanupSecondSave(p)
      [] pc[p] = "cl_save_2" ->
            IF SavesReplies("cl_save_2") THEN CleanupReturn(p)
            ELSE CleanupReturnFailed(p)
      [] pc[p] = "cw_save" ->
            Goto(p, "cw_failed", loc[p]) /\ UNCHANGED <<sweptAt, ackW, ackR>>
      [] pc[p] = "cr_save_r" ->
            Goto(p, "cr_failed", loc[p]) /\ UNCHANGED <<sweptAt, ackW, ackR>>
      [] pc[p] = "cr_save_w" -> CreateReplyReturn(p)

\* Line 57 raises: the file is as it was.
save_open_fails(p) ==
    /\ pc[p] \in SaveSites
    /\ loc[p].sv = "open"
    /\ SaveFailed(p)
    /\ UNCHANGED <<now, files, LAST_UPDATE_TIME, ops, staleMax>>

\* Line 58 raises: the file stays as the open of line 57 left it.
save_dump_fails(p) ==
    /\ pc[p] \in SaveSites
    /\ loc[p].sv = "write"
    /\ SaveFailed(p)
    /\ UNCHANGED <<now, files, LAST_UPDATE_TIME, ops, staleMax>>

\* Lines 233 and 268: the save-failed answer.
save_failed_answer(p) ==
    /\ pc[p] \in {"cw_failed", "cr_failed"}
    /\ Respond(p)
    /\ UNCHANGED <<now, files, LAST_UPDATE_TIME, ops, history>>

\* Lines 49-53: for a while the file cannot be read, and load_data
\* returns []; what the file holds is untouched.
read_fault ==
    /\ \/ WHISPERS_FILE.ok
          /\ WHISPERS_FILE' = [WHISPERS_FILE EXCEPT !.ok = FALSE]
          /\ UNCHANGED REPLIES_FILE
       \/ REPLIES_FILE.ok
          /\ REPLIES_FILE' = [REPLIES_FILE EXCEPT !.ok = FALSE]
          /\ UNCHANGED WHISPERS_FILE
    /\ UNCHANGED <<now, LAST_UPDATE_TIME, pc, loc, ops, history>>

read_recover ==
    /\ \/ ~WHISPERS_FILE.ok /\ WHISPERS_FILE.data # <<>>
          /\ WHISPERS_FILE' = [WHISPERS_FILE EXCEPT !.ok = TRUE]
          /\ UNCHANGED REPLIES_FILE
       \/ ~REPLIES_FILE.ok /\ REPLIES_FILE.data # <<>>
          /\ REPLIES_FILE' = [REPLIES_FILE EXCEPT !.ok = TRUE]
          /\ UNCHANGED WHISPERS_FILE
    /\ UNCHANGED <<now, LAST_UPDATE_TIME, pc, loc, ops, history>>

\* ---- get_whispers, lines 114-147 ---------------------------------------
\* Line 117 up to the first load of cleanup_old_whispers.
get_whispers(p, topic) ==
    /\ Begin(p)
    /\ CleanupLoad(p, [NoLoc EXCEPT !.topic = Get(topic, "all"),
                                    !.seen = sweptAt], "gw_load")
    /\ UNCHANGED <<now, files, LAST_UPDATE_TIME, history>>

\* Lines 119-137.
get_whispers_load(p) ==
    /\ pc[p] = "gw_load"
    /\ Goto(p, "gw_respond",
            [loc[p] EXCEPT !.whispers =
                ListData(load_data(WHISPERS_FILE), loc[p].topic)])
    /\ UNCHANGED <<now, files, LAST_UPDATE_TIME, ops, history>>

\* Lines 140-145: the response, built when LAST_UPDATE_TIME is `last`.
get_whispers_response(l, last) ==
    [success |-> TRUE, data |-> l.whispers, last_update |-> isoformat(last),
     current_topic |-> ListTopic(l.topic)]

get_whispers_respond(p) ==
    /\ pc[p] = "gw_respond"
    /\ Respond(p)
    /\ UNCHANGED <<now, files, LAST_UPDATE_TIME, ops, history>>

\* ---- check_updates, lines 149-192 --------------------------------------
\* Lines 152-172.
check_updates(p, last_update, topic) ==
    /\ Begin(p)
    /\ Goto(p, "cu_compare",
            [NoLoc EXCEPT
                !.last_client_update = last_update,
                !.topic = CheckTopic(Get(topic, "all")),
                !.current_count =
                    CheckCount(load_data(WHISPERS_FILE), Get(topic, "all"))])
    /\ UNCHANGED <<now, files, LAST_UPDATE_TIME, history>>

\* Lines 175-182.
check_updates_compare(p) ==
    /\ pc[p] = "cu_compare"
    /\ Goto(p, "cu_respond",
            [loc[p] EXCEPT !.data_changed =
                DataChanged(loc[p].last_client_update, LAST_UPDATE_TIME)])
    /\ UNCHANGED <<now, files, LAST_UPDATE_TIME, ops, history>>

\* Lines 184-192: reading the unbound current_count raises, and the handler
\* answers with the error of line 192.
check_updates_response(l, last) ==
    IF l.current_count = -1
    THEN [success |-> FALSE, has_updates |-> FALSE,
          last_update |-> <<>>, total_whispers |-> -1, topic |-> ""]
    ELSE [success |-> TRUE, has_updates |-> l.data_changed,
          last_update |-> isoformat(last),
          total_whispers |-> l.current_count, topic |-> l.topic]

check_updates_respond(p) ==
    /\ pc[p] = "cu_respond"
    /\ Respond(p)
    /\ UNCHANGED <<now, files, LAST_UPDATE_TIME, ops, history>>

\* ---- get_whisper, lines 194-205 ----------------------------------------
\* Lines 196-199: a post that is not found is answered at once.
get_whisper(p, id) ==
    /\ Begin(p)
    /\ LET whispers == load_data(WHISPERS_FILE)
       IN IF ~HasWhisper(whispers, id)
          THEN Respond(p)
          ELSE Goto(p, "gwh_replies",
                    [NoLoc EXCEPT !.id = id, !.whispers = whispers])
    /\ UNCHANGED <<now, files, LAST_UPDATE_TIME, history>>

\* Lines 202-205: the data of the response, with `replies` loaded.
get_whisper_response(l, replies) ==
    [l.whispers[FirstIndex(l.whispers, l.id)] EXCEPT
        !.replies_count = RepliesCount(replies, l.id)]

get_whisper_replies(p) ==
    /\ pc[p] = "gwh_replies"
    /\ Respond(p)
    /\ UNCHANGED <<now, files, LAST_UPDATE_TIME, ops, history>>

\* ---- get_replies, lines 235-240 ----------------------------------------
\* The data of the response, with `replies` loaded.
get_replies_response(replies, id) ==
    SortAsc(SelectSeq(replies, LAMBDA r : r.whisper_id = id))

get_replies(p, id) ==
    /\ Begin(p)
    /\ Respond(p)
    /\ UNCHANGED <<now, files, LAST_UPDATE_TIME, history>>

\* ---- create_whisper, lines 207-233 -------------------------------------
\* Lines 209-230: the validation error of line 211 is answered at once.
create_whisper(p, content, topic, is_sensitive) ==
    /\ Begin(p)
    /\ IF ContentMissing(content)
       THEN Respond(p)
       ELSE LET whispers == load_data(WHISPERS_FILE)
            IN Goto(p, "cw_save",
                    [NoLoc EXCEPT
                        !.whispers = Append(whispers,
                            NewWhisper(whispers, content, topic,
                                       is_sensitive, now)),
                        !.sv = "open"])
    /\ UNCHANGED <<now, files, LAST_UPDATE_TIME, history>>

\* The request goes on although no post has the id.
MutReplyNotFound(whispers, id) == FALSE

\* Lines 249-250: `if not whisper`.
ReplyNotFound(whispers, id) == ~HasWhisper(whispers, id)

\* ---- create_reply, lines 242-268 ---------------------------------------
\* Lines 244-251: the errors of lines 246 and 251 are answered at once.
create_reply(p, id, content) ==
    /\ Begin(p)
    /\ LET whispers == load_data(WHISPERS_FILE)
       IN IF ContentMissing(content)
          THEN Respond(p)
          ELSE IF ReplyNotFound(whispers, id)
          THEN Goto(p, "cr_not_found", [NoLoc EXCEPT !.id = id])
          ELSE Goto(p, "cr_replies",
                    [NoLoc EXCEPT !.id = id, !.whispers = whispers,
                                  !.content = content])
    /\ UNCHANGED <<now, files, LAST_UPDATE_TIME, history>>

\* Line 251: the 404 answer.
create_reply_not_found(p) ==
    /\ pc[p] = "cr_not_found"
    /\ Respond(p)
    /\ UNCHANGED <<now, files, LAST_UPDATE_TIME, ops, history>>

\* Lines 253-262.
create_reply_replies(p) ==
    /\ pc[p] = "cr_replies"
    /\ LET l == loc[p]
           replies == load_data(REPLIES_FILE)
       IN Goto(p, "cr_save_r",
               [l EXCEPT !.replies = Append(replies,
                             NewReply(replies, l.id, l.content, now)),
                         !.content = Absent,
                         !.sv = "open"])
    /\ UNCHANGED <<now, files, LAST_UPDATE_TIME, ops, history>>

\* ------------------------------------------------------------------------
\* Requests and specifications
\* ------------------------------------------------------------------------
Times == 0..MaxTime

\* Requests of the concurrent runs.
Contents == {Absent, Given(<<" ", "a">>)}
PostTopics == {"music"}
Flags == {FALSE}
QueryTopics == {NoParam}
ClientTimes == {Absent} \cup {Given(isoformat(t)) : t \in Times}

\* Requests of the runs that serve one request at a time.
ContentsSeq == {Absent, Given(<<>>), Given(<<" ">>), Given(<<" ", "a">>)}
PostTopicsSeq == {NoParam, "music", "not-a-real-topic"}
FlagsSeq == BOOLEAN
QueryTopicsSeq ==
    {"music", "random", NoParam, "all", "", "not-a-real-topic"}
ClientTimesSeq == ClientTimes \cup {Given(<<"0", "1", "Z">>), Given(<<"a">>)}

\* Threads interleave at every step.
Next ==
    \/ Tick
    \/ \E p \in Procs :
        \/ auto_cleanup(p)
        \/ cleanup_replies(p)
        \/ save_open(p)
        \/ save_write(p)
        \/ save_stamp(p)
        \/ \E content \in Contents, topic \in PostTopics,
              is_sensitive \in Flags :
                create_whisper(p, content, topic, is_sensitive)
        \/ \E id \in RequestIds, content \in Contents :
                create_reply(p, id, content)
        \/ create_reply_not_found(p)
        \/ create_reply_replies(p)
        \/ \E topic \in QueryTopics : get_whispers(p, topic)
        \/ get_whispers_load(p)
        \/ get_whispers_respond(p)
        \/ \E last_update \in ClientTimes, topic \in QueryTopics :
                check_updates(p, last_update, topic)
        \/ check_updates_compare(p)
        \/ check_updates_respond(p)
        \/ \E id \in RequestIds : get_whisper(p, id)
        \/ get_whisper_replies(p)
        \/ \E id \in RequestIds : get_replies(p, id)

Spec == Init /\ [][Next]_vars

\* One request or cleanup cycle at a time: a thread starts only when every
\* other thread is idle.
Alone(p) == \A q \in Procs \ {p} : pc[q] = "idle"

NextSeq ==
    \/ Tick
    \/ \E p \in Procs :
        \/ Alone(p) /\ auto_cleanup(p)
        \/ cleanup_replies(p)
        \/ save_open(p)
        \/ save_write(p)
        \/ save_stamp(p)
        \/ \E content \in ContentsSeq, topic \in PostTopicsSeq,
              is_sensitive \in FlagsSeq :
                Alone(p) /\ create_whisper(p, content, topic, is_sensitive)
        \/ \E id \in RequestIds, content \in ContentsSeq :
                Alone(p) /\ create_reply(p, id, content)
        \/ create_reply_not_found(p)
        \/ create_reply_replies(p)
        \/ \E topic \in QueryTopicsSeq : Alone(p) /\ get_whispers(p, topic)
        \/ get_whispers_load(p)
        \/ get_whispers_respond(p)
        \/ \E last_update \in ClientTimesSeq, topic \in QueryTopicsSeq :
                Alone(p) /\ check_updates(p, last_update, topic)
        \/ check_updates_compare(p)
        \/ check_updates_respond(p)
        \/ \E id \in RequestIds : Alone(p) /\ get_whisper(p, id)
        \/ get_whisper_replies(p)
        \/ \E id \in RequestIds : Alone(p) /\ get_replies(p, id)

SpecSeq == InitSeq /\ [][NextSeq]_vars

\* One request or cleanup cycle at a time, with saves that fail and files
\* that cannot be read.
NextFault ==
    \/ Tick
    \/ read_fault
    \/ read_recover
    \/ \E p \in Procs :
        \/ Alone(p) /\ auto_cleanup(p)
        \/ cleanup_replies(p)
        \/ save_open(p)
        \/ save_write(p)
        \/ save_stamp(p)
        \/ save_open_fails(p)
        \/ save_dump_fails(p)
        \/ save_failed_answer(p)
        \/ \E content \in Contents, topic \in PostTopics,
              is_sensitive \in Flags :
                Alone(p) /\ create_whisper(p, content, topic, is_sensitive)
        \/ \E id \in RequestIds, content \in Contents :
                Alone(p) /\ create_reply(p, id, content)
        \/ create_reply_not_found(p)
        \/ create_reply_replies(p)
        \/ \E topic \in QueryTopics : Alone(p) /\ get_whispers(p, topic)
        \/ get_whispers_load(p)
        \/ get_whispers_respond(p)

SpecFault == Init /\ [][NextFault]_vars

\* ---- the cleanup thread by itself --------------------------------------
\* A store that holds a record whose created_at is not a timestamp.
WhisperBad == [Whisper0 EXCEPT !.created_at = <<"a">>]
InitialStoresLive ==
    InitialStores \cup {<<Stored(<<Whisper0, WhisperBad>>), Stored(<<Reply0>>)>>}
InitLive == InitFrom(InitialStoresLive)

\* Lines 90-92: time.sleep(60) returns and cleanup_old_whispers is called.
auto_cleanup_wake(p) ==
    /\ p = Sweeper
    /\ pc[p] = "idle"
    /\ Goto(p, "cl_start", NoLoc)
    /\ UNCHANGED <<now, files, LAST_UPDATE_TIME, ops, history>>

\* Lines 68-78.
cleanup_start(p) ==
    /\ pc[p] = "cl_start"
    /\ CleanupLoad(p, NoLoc, "idle")
    /\ UNCHANGED <<now, files, LAST_UPDATE_TIME, ops, history>>

SweeperStep ==
    \/ auto_cleanup_wake(Sweeper)
    \/ cleanup_start(Sweeper)
    \/ cleanup_replies(Sweeper)
    \/ save_open(Sweeper)
    \/ save_write(Sweeper)
    \/ save_stamp(Sweeper)
    \/ save_open_fails(Sweeper)
    \/ save_dump_fails(Sweeper)

NextLive ==
    \/ Tick
    \/ read_fault
    \/ read_recover
    \/ SweeperStep

\* The thread is scheduled again and again, and its sleep returns.
SpecLive == InitLive /\ [][NextLive]_vars /\ WF_vars(SweeperStep)

\* ------------------------------------------------------------------------
\* Properties
\* ------------------------------------------------------------------------
AllIdle == \A p \in Procs : pc[p] = "idle"
Elems(list) == {list[i] : i \in 1..Len(list)}
Expired(created_at, t) == ParseTime(created_at) <= t - Retention

\* C3: a create-post request whose content is empty or only whitespace is
\* rejected, and no stored post (nor one about to be saved) has empty
\* content after trimming.
C3_NoEmptyContent ==
    /\ \A w \in Elems(load_data(WHISPERS_FILE)) : strip(w.content) # <<>>
    /\ \A p \in Workers :
         pc[p] = "cw_save" =>
            strip(loc[p].whispers[Len(loc[p].whispers)].content) # <<>>

\* The listing a worker is about to answer, and what is stored then.
Listing(p) == get_whispers_response(loc[p], LAST_UPDATE_TIME)
Descending(data) ==
    \A i, j \in 1..Len(data) :
        i < j => ParseTime(data[i].created_at) >= ParseTime(data[j].created_at)
ListsExactly(data, whispers, t, cutoff_time) ==
    /\ Elems(data) =
         {w \in Elems(whispers) : w.topic = t /\ Kept(w, cutoff_time)}
    /\ Len(data) = Cardinality(Elems(data))
    /\ Descending(data)

\* C5: a listing with a topic t of the fixed set returns exactly the stored
\* non-expired posts whose topic is t, newest first, and reports t as
\* current_topic.
C5_TopicListing ==
    \A p \in Workers :
        pc[p] = "gw_respond" /\ loc[p].topic \in ALL_TOPICS =>
            /\ Listing(p).success
            /\ Listing(p).current_topic = loc[p].topic
            /\ ListsExactly(Listing(p).data, load_data(WHISPERS_FILE),
                            loc[p].topic, loc[p].cutoff_time)

\* A listing by topic that left a post of another topic out and put two
\* posts of different ages in order.
C5_Witness ==
    \E p \in Workers :
        /\ pc[p] = "gw_respond" /\ loc[p].topic \in ALL_TOPICS
        /\ Len(Listing(p).data) = 2
        /\ Listing(p).data[1].created_at # Listing(p).data[2].created_at
        /\ Len(load_data(WHISPERS_FILE)) > 2

\* C6: a listing whose topic parameter is not empty and not in the fixed
\* set answers as topic "all" does: every stored non-expired post, newest
\* first, current_topic "all".
C6_UnknownTopicListsAll ==
    \A p \in Workers :
        /\ pc[p] = "gw_respond"
        /\ loc[p].topic # "" /\ loc[p].topic \notin ALL_TOPICS
        => /\ Listing(p).current_topic = "all"
           /\ Elems(Listing(p).data) =
                {w \in Elems(load_data(WHISPERS_FILE)) :
                    Kept(w, loc[p].cutoff_time)}
           /\ Descending(Listing(p).data)

\* C7: check-updates answers successfully whatever the topic parameter
\* is, and with a topic outside the fixed set it counts every stored post
\* under topic "all".
C7_CheckUpdatesAnswers ==
    \A p \in Workers :
        pc[p] = "cu_respond" =>
            LET r == check_updates_response(loc[p], LAST_UPDATE_TIME)
            IN /\ r.success
               /\ r.topic \in ALL_TOPICS \cup {"", "all"}
               /\ r.topic \notin ALL_TOPICS =>
                    r.total_whispers = Len(load_data(WHISPERS_FILE))

\* The posts a running cleanup cycle has taken out of the stored posts.
RemovedBy(p) ==
    {id \in Elems(loc[p].deleted_ids) :
        ~HasWhisper(WHISPERS_FILE.data, id)}

\* C10: at every point of a cleanup cycle, no stored reply belongs to a
\* post which that cycle has already removed from the stored posts: the
\* replies are saved first.
C10_RepliesSavedFirst ==
    \A p \in Procs :
        pc[p] \in {"cl_replies", "cl_save_1", "cl_save_2"} =>
            \A r \in Elems(REPLIES_FILE.data) : r.whisper_id \notin RemovedBy(p)

\* A cycle that has written the posts without an expired post that had a
\* reply.
C10_Witness ==
    \E p \in Procs :
        /\ pc[p] = "cl_save_2" /\ loc[p].sv = "stamp"
        /\ WHISPERS_FILE.ok
        /\ \E id \in RemovedBy(p) : ackR[id] > 0

\* C1: once a cleanup cycle has removed an expired post, no listing that
\* starts afterwards returns that post, and no reply listing returns a
\* reply of that post, whatever the request handlers do meanwhile.
C1_SweptStayAbsent ==
    /\ \A p \in Workers :
         pc[p] = "gw_respond" =>
            \A w \in Elems(Listing(p).data) :
                ~(/\ loc[p].seen[w.id] # -1
                  /\ Expired(w.created_at, loc[p].seen[w.id]))
    /\ \A id \in Ids :
         sweptAt[id] # -1 =>
            \A r \in Elems(get_replies_response(load_data(REPLIES_FILE), id)) :
                ParseTime(r.created_at) >= sweptAt[id]

\* What a single-post fetch arriving now reports for a stored post.
Fetch(id) ==
    get_whisper_response(
        [NoLoc EXCEPT !.id = id, !.whispers = load_data(WHISPERS_FILE)],
        load_data(REPLIES_FILE))

\* C2: when every request has been answered, a fetch of a stored post that
\* no cycle has swept reports as many replies as create-reply requests for
\* it have been answered with success.
C2_RepliesCounted ==
    AllIdle =>
        \A id \in Ids :
            HasWhisper(load_data(WHISPERS_FILE), id) /\ sweptAt[id] = -1 =>
                Fetch(id).replies_count = ackR[id]

\* has_updates of a check-updates whose comparison runs now.
HasUpdates(last_update) == DataChanged(last_update, LAST_UPDATE_TIME)

\* C4: has_updates is true without last_update, false for the current
\* value of the shared timestamp, and true for an earlier value of it that
\* a later completed save has followed.  (A value that reads the same as
\* the current one falls under the second case.)
C4_HasUpdates ==
    /\ HasUpdates(Absent)
    /\ ~HasUpdates(Given(isoformat(LAST_UPDATE_TIME)))
    /\ staleMax # -1 /\ staleMax # LAST_UPDATE_TIME =>
          HasUpdates(Given(isoformat(staleMax)))

UniqueIds(records) ==
    \A i, j \in 1..Len(records) : records[i].id = records[j].id => i = j

\* C8: no two stored posts have the same id and no two stored replies have
\* the same id, in every state of every interleaving.
C8_UniqueIds ==
    /\ UniqueIds(WHISPERS_FILE.data)
    /\ UniqueIds(REPLIES_FILE.data)

\* Two posts and two replies are stored.
C8_Witness ==
    /\ Len(WHISPERS_FILE.data) >= 2
    /\ Len(REPLIES_FILE.data) >= 2

\* C9: when every request has been answered and no cycle is running, every
\* post whose creation was answered with success and that has not expired
\* is stored, and every post has at least the replies whose creation was
\* answered with success since it was last swept.
C9_OnlySweeperDestroys ==
    AllIdle =>
        /\ \A k \in ackW :
              \/ Expired(k.created_at, now)
              \/ k \in Keys(load_data(WHISPERS_FILE))
        /\ \A id \in Ids :
              RepliesCount(load_data(REPLIES_FILE), id) >= ackR[id]

\* C13: a create-reply for an id that no stored post has is answered with
\* the not-found error and changes neither file nor the shared timestamp;
\* a create-reply goes on to store a reply only for an id that a stored
\* post had when the request looked it up.
C13_NotFoundNoChange ==
    [][\A p \in Workers :
         /\ pc[p] = "idle" /\ pc'[p] = "cr_not_found" =>
               /\ ~HasWhisper(load_data(WHISPERS_FILE), loc'[p].id)
               /\ UNCHANGED <<files, LAST_UPDATE_TIME>>
         /\ pc[p] = "cr_not_found" /\ pc'[p] # "cr_not_found" =>
               /\ pc'[p] = "idle"
               /\ UNCHANGED <<files, LAST_UPDATE_TIME>>
         /\ pc[p] = "idle" /\ pc'[p] = "cr_replies" =>
               HasWhisper(load_data(WHISPERS_FILE), loc'[p].id)]_vars

\* The not-found answer is about to leave while posts and replies are
\* stored.
C13_Witness ==
    \E p \in Workers :
        /\ pc[p] = "cr_not_found"
        /\ ~HasWhisper(load_data(WHISPERS_FILE), loc[p].id)
        /\ load_data(WHISPERS_FILE) # <<>>
        /\ load_data(REPLIES_FILE) # <<>>

\* C14: no listing returns an expired post: every post of the data was
\* created after the cutoff of the cleanup which that request ran, in any
\* interleaving with other requests and cleanup cycles.
C14_ListingNotExpired ==
    \A p \in Workers :
        pc[p] = "gw_respond" =>
            \A w \in Elems(Listing(p).data) : Kept(w, loc[p].cutoff_time)

\* C18: the shared timestamp never decreases, whatever the interleaving of
\* the saves.
C18_TimestampMonotone ==
    [][LAST_UPDATE_TIME' >= LAST_UPDATE_TIME]_vars

\* C19: a listing that answers data D with last_update T while every write
\* is complete either reflects the stored posts or is followed by
\* has_updates = true for a check-updates with T.
C19_NoMissedChange ==
    \A p \in Workers :
        pc[p] = "gw_respond" /\ Alone(p) =>
            \/ Listing(p).data =
                 ListData(load_data(WHISPERS_FILE), loc[p].topic)
            \/ HasUpdates(Given(Listing(p).last_update))

\* C20: the replies listed and counted for a stored post were written for
\* that post: none of them is older than the post itself.
C20_RepliesOfThisPost ==
    \A w \in Elems(load_data(WHISPERS_FILE)) :
        \A r \in Elems(get_replies_response(load_data(REPLIES_FILE), w.id)) :
            ParseTime(r.created_at) >= ParseTime(w.created_at)

\* C11: the cleanup thread starts a cycle again and again, whatever ends
\* the cycles before: a load that fails, a save that fails, a stored record
\* that cannot be parsed.
C11_SweeperLive == []<>(pc[Sweeper] = "cl_start")

\* A cycle starts after one in which a save failed: the posts are gone or
\* unreadable while the reply of the expired post is still stored.
C11_Witness ==
    /\ pc[Sweeper] = "cl_start"
    /\ ~WHISPERS_FILE.ok /\ WHISPERS_FILE.data = <<>>
    /\ REPLIES_FILE.data # <<>>

\* The post a create-post request appended at line 230.
NewPost(p) == loc[p].whispers[Len(loc[p].whispers)]
Loaded(p) == SubSeq(loc[p].whispers, 1, Len(loc[p].whispers) - 1)

\* C12: when create-post is about to answer that the save failed, the
\* posts file still holds the posts the request had loaded from it, and
\* does not hold the new post.
C12_FailedSaveCommitsNothing ==
    \A p \in Workers :
        pc[p] = "cw_failed" =>
            /\ \A w \in Elems(Loaded(p)) : InList(w, WHISPERS_FILE.data)
            /\ ~InList(NewPost(p), WHISPERS_FILE.data)

\* C15: what a cleanup cycle with expired posts is about to save is exactly
\* what the files hold without the expired records: the posts created
\* after the cutoff, and the replies of posts that did not expire, also
\* when a load of the cycle failed.
C15_RemovesExactlyExpired ==
    \A p \in Procs :
        pc[p] = "cl_save_1" /\ loc[p].sv = "open" =>
            /\ loc[p].filtered_whispers =
                 FilteredWhispers(WHISPERS_FILE.data, loc[p].cutoff_time)
            /\ loc[p].replies =
                 FilteredReplies(REPLIES_FILE.data, loc[p].deleted_ids)

NoOrphans ==
    \A r \in Elems(load_data(REPLIES_FILE)) :
        HasWhisper(load_data(WHISPERS_FILE), r.whisper_id)

\* C16: after a cleanup cycle that completed without failure, every stored
\* reply has its post.  A cycle that starts when nothing runs, both files
\* can be read and no stored post is expired completes without failure
\* and leaves the state as it is, so every such state is one.
C16_NoOrphansAfterCycle ==
    /\ AllIdle
    /\ WHISPERS_FILE.ok /\ REPLIES_FILE.ok
    /\ DeletedIds(load_data(WHISPERS_FILE), now - Retention) = <<>>
    => NoOrphans

\* C17: a cleanup cycle starts its writes only when a stored post is
\* expired, and the steps of a listing outside such writes change neither
\* file nor the shared timestamp, so that a client holding the current
\* timestamp is still told has_updates = false.
C17_NoExpiredNoWrite ==
    [][\A p \in Procs :
         /\ pc[p] = "idle" /\ pc'[p] = "cl_replies" =>
               DeletedIds(load_data(WHISPERS_FILE), now - Retention) # <<>>
         /\ pc[p] \in {"cl_replies", "cl_save_1", "cl_save_2"} =>
               loc[p].deleted_ids # <<>>
         /\ /\ pc'[p] # pc[p]
            /\ pc[p] \in {"idle", "gw_load", "gw_respond"}
            /\ pc'[p] \in {"idle", "gw_load", "gw_respond"}
            => /\ UNCHANGED <<files, LAST_UPDATE_TIME>>
               /\ ~DataChanged(Given(isoformat(LAST_UPDATE_TIME)),
                               LAST_UPDATE_TIME')]_vars

\* A listing has run its cleanup over stored posts none of which is
\* expired, and nothing has been written since the start.
C17_Witness ==
    \E p \in Workers :
        /\ pc[p] = "gw_load"
        /\ WHISPERS_FILE.data # <<>>
        /\ DeletedIds(WHISPERS_FILE.data, loc[p].cutoff_time) = <<>>
        /\ now > 0 /\ LAST_UPDATE_TIME = 0

====
